---- MODULE Spec2Model ----
(***************************************************************************)
(* Model of the bazed session core (crates/bazed-core/src/app.rs): the App *)
(* registries, the handlers of handle_rpc_call, the command loop spawned   *)
(* by start and the bootstrap's initial document open, which share one     *)
(* RwLock.  Collaborators that live outside app.rs (the id generator, the  *)
(* client send handle, the buffer, the input mapper) are modelled from     *)
(* their described contracts.                                              *)
(***************************************************************************)
EXTENDS Naturals, Sequences, FiniteSets, TLC

\* ---------------------------------------------------------------- bounds
\* Commands the frontend issues in one session.
MaxCmds == 2
\* Commands that may wait in the inbound channel at once.
MaxQueue == 2

\* ---------------------------------------------------------------- inputs
\* Ids a command may name: the first ids the generator hands out, so that
\* a command can name the document's id, a view's id, or an id not (yet)
\* allocated.
Ids == 1..2
\* (request_id, height, width) of the ViewOpened commands issued.
OpenParams == { <<1, 1, 2>>, <<2, 2, 3>> }
\* (height, width, first_line, first_col) of the ViewportChanged commands issued.
Geometries == { <<1, 1, 0, 0>>, <<2, 2, 0, 1>>, <<1, 2, 1, 1>> }
\* Key inputs: a character, a cursor key, the save chord, an unbound key.
Keys == { "a", "Left", "C-s", "F1" }
\* Contents of the file named on the command line.
FileText == << "a" >>

NoMsg == [type |-> "None"]
NoCmd == [type |-> "None"]
NoDoc == [type |-> "None"]
NoPre == [type |-> "None"]

VARIABLES
    documents,   \* App.documents : DocumentId -> Document
    views,       \* App.views     : ViewId -> View
    nextId,      \* the id generator: the next id it hands out
    outbound,    \* messages handed to App.event_send.send_rpc, in order
    sendOpen,    \* the outbound channel still accepts messages
    inbound,     \* commands waiting in recv, in arrival order
    issued,      \* number of commands the frontend has issued
    inClosed,    \* the inbound stream has terminated
    lock,        \* holder of the RwLock write guard: "free", "loop", "boot"
    pcLoop,      \* position of the spawned command loop
    cur,         \* the command the loop is handling
    pending,     \* message handed to send_rpc, not yet delivered
    res,         \* result of handle_rpc_call for cur
    pre,         \* registries and stream length when cur's guard was taken
    path,        \* start's path argument: "none" or "file"
    pcBoot,      \* position of start after spawning the loop
    bootDoc,     \* the Document start is opening
    bootId       \* the id open_document generated for it

vars == << documents, views, nextId, outbound, sendOpen, inbound, issued,
           inClosed, lock, pcLoop, cur, pending, res, pre, path, pcBoot,
           bootDoc, bootId >>

appVars == << documents, views, nextId >>
loopVars == << pcLoop, cur, pending, res, pre >>
bootVars == << pcBoot, bootDoc, bootId >>
envVars == << inbound, issued, inClosed, sendOpen >>

\* ------------------------------------------------------------ collaborators
Min(a, b) == IF a < b THEN a ELSE b

\* Document::open_ephemeral: no path, empty buffer.
open_ephemeral_document ==
    [path |-> "none", buffer |-> [text |-> << >>, caret |-> 0]]

\* Document::open_file: the path and the file's contents.
open_file_document ==
    [path |-> "file", buffer |-> [text |-> FileText, caret |-> 0]]

\* Buffer::content_to_string.
content_to_string(buffer) == buffer.text

\* View::new: the given geometry, scrolled to the origin.
NewView(document_id, height, width) ==
    [document_id |-> document_id, height |-> height, width |-> width,
     first_line |-> 0, first_col |-> 0]

\* interpret_key_input: the operation a key maps to, if any.
interpret_key_input(input) ==
    CASE input = "a"    -> [kind |-> "Edit", op |-> "Insert"]
      [] input = "Left" -> [kind |-> "Movement", op |-> "Left"]
      [] input = "C-s"  -> [kind |-> "Document", op |-> "Save"]
      [] OTHER          -> [kind |-> "None"]

\* Buffer::apply_edit_op: insert the character at the caret.
apply_edit_op(buffer, op) ==
    [text |-> SubSeq(buffer.text, 1, buffer.caret) \o << "a" >>
              \o SubSeq(buffer.text, buffer.caret + 1, Len(buffer.text)),
     caret |-> buffer.caret + 1]

\* Buffer::apply_movement_op: move the caret one column to the left.
apply_movement_op(buffer, view, op) ==
    [buffer EXCEPT !.caret = IF @ > 0 THEN @ - 1 ELSE 0]

\* The buffer's lines (the model's buffers hold one line).
Lines(buffer) == << buffer.text >>

\* Document::create_update_notification: the view's first line and height,
\* the visible lines, the carets and the mode.
create_update_notification(document, view_id, view) ==
    [type |-> "UpdateView",
     view_id |-> view_id,
     first_line |-> view.first_line,
     height |-> view.height,
     text |-> SubSeq(Lines(document.buffer), view.first_line + 1,
                     Min(view.first_line + view.height,
                         Len(Lines(document.buffer)))),
     carets |-> << [line |-> 0, col |-> document.buffer.caret] >>,
     vim_mode |-> "normal"]

\* ------------------------------------------------------------------- Init
Init ==
    /\ documents = << >>
    /\ views = << >>
    /\ nextId = 1
    /\ outbound = << >>
    /\ sendOpen = TRUE
    /\ inbound = << >>
    /\ issued = 0
    /\ inClosed = FALSE
    /\ lock = "free"
    /\ pcLoop = "recv"
    /\ cur = NoCmd
    /\ pending = NoMsg
    /\ res = "None"
    /\ pre = NoPre
    /\ path \in { "none", "file" }
    /\ pcBoot = "start"
    /\ bootDoc = NoDoc
    /\ bootId = 0


\* ---------------------------------------------------------------- helpers
\* HashMap::insert: the entry for key is set, replacing any previous one.
Insert(map, key, value) ==
    [k \in (DOMAIN map) \cup {key} |-> IF k = key THEN value ELSE map[k]]

\* DocumentId::gen / ViewId::gen: an id never handed out before.
Gen == nextId

\* ClientSendHandle::send_rpc(msg): the message is handed to the outbound
\* channel, which delivers it unless the client is gone.  Each message is
\* recorded with the number of the command that sent it (0: start).
send_rpc(msg, by) ==
    Append(outbound, [msg |-> msg, by |-> by, delivered |-> sendOpen])

\* The handler returns Err(e) / Ok(()) / is suspended in send_rpc(msg).await.
Fail(e) == pcLoop' = "end" /\ res' = e /\ pending' = NoMsg
Return == pcLoop' = "end" /\ res' = "Ok" /\ pending' = NoMsg
Await(msg) == pcLoop' = "send" /\ res' = "None" /\ pending' = msg

\* ------------------------------------------------------------ the frontend
Commands(n) ==
    [type : {"KeyPressed"}, view_id : Ids, input : Keys, n : {n}]
    \cup [type : {"MouseInput"}, view_id : Ids,
          position : {[line |-> 0, col |-> 0]}, n : {n}]
    \cup { [type |-> "ViewportChanged", view_id |-> v, height |-> g[1],
            width |-> g[2], first_line |-> g[3], first_col |-> g[4], n |-> n]
           : v \in Ids, g \in Geometries }
    \cup { [type |-> "ViewOpened", request_id |-> p[1], document_id |-> d,
            height |-> p[2], width |-> p[3], n |-> n]
           : d \in Ids, p \in OpenParams }
    \cup [type : {"SaveDocument"}, document_id : Ids, n : {n}]

\* The frontend sends a command; it joins the inbound channel.
Issue ==
    /\ ~inClosed
    /\ issued < MaxCmds
    /\ Len(inbound) < MaxQueue
    /\ \E c \in Commands(issued + 1) : inbound' = Append(inbound, c)
    /\ issued' = issued + 1
    /\ UNCHANGED << appVars, outbound, sendOpen, inClosed, lock, loopVars,
                    path, bootVars >>

\* The client disconnects: the inbound stream terminates after the commands
\* already waiting in it, and every later send_rpc fails.
Disconnect ==
    /\ ~inClosed
    /\ inClosed' = TRUE
    /\ sendOpen' = FALSE
    /\ UNCHANGED << appVars, outbound, inbound, issued, lock, loopVars, path,
                    bootVars >>

\* ---------------------------------------------------------------- handlers
\* The comparison written with >= instead of >.
needs_new_view_info_ge(view, height, first_line) ==
    height >= view.height \/ view.first_line # first_line

needs_new_view_info(view, height, first_line) ==
    height > view.height \/ view.first_line # first_line

\* The handler writing the new geometry only when it notifies.
handle_viewport_changed_lazy(view_id, height, width, first_line, first_col) ==
    IF view_id \notin DOMAIN views
    THEN Fail("InvalidViewId") /\ UNCHANGED appVars
    ELSE LET old == views[view_id]
             view == [old EXCEPT !.width = width, !.height = height,
                                 !.first_line = first_line,
                                 !.first_col = first_col]
         IN  IF needs_new_view_info(old, height, first_line)
             THEN /\ views' = [views EXCEPT ![view_id] = view]
                  /\ UNCHANGED << documents, nextId >>
                  /\ IF view.document_id \notin DOMAIN documents
                     THEN Fail("InvalidDocumentId")
                     ELSE Await(create_update_notification(
                                   documents[view.document_id], view_id, view))
             ELSE Return /\ UNCHANGED appVars

\* The handler building the notification from the view as it was.
handle_viewport_changed_stale(view_id, height, width, first_line, first_col) ==
    IF view_id \notin DOMAIN views
    THEN Fail("InvalidViewId") /\ UNCHANGED appVars
    ELSE LET old == views[view_id]
             view == [old EXCEPT !.width = width, !.height = height,
                                 !.first_line = first_line,
                                 !.first_col = first_col]
         IN  /\ views' = [views EXCEPT ![view_id] = view]
             /\ UNCHANGED << documents, nextId >>
             /\ IF needs_new_view_info(old, height, first_line)
                THEN IF view.document_id \notin DOMAIN documents
                     THEN Fail("InvalidDocumentId")
                     ELSE Await(create_update_notification(
                                   documents[view.document_id], view_id, old))
                ELSE Return

handle_viewport_changed(view_id, height, width, first_line, first_col) ==
    IF view_id \notin DOMAIN views
    THEN Fail("InvalidViewId") /\ UNCHANGED appVars
    ELSE LET old == views[view_id]
             view == [old EXCEPT !.width = width, !.height = height,
                                 !.first_line = first_line,
                                 !.first_col = first_col]
         IN  /\ views' = [views EXCEPT ![view_id] = view]
             /\ UNCHANGED << documents, nextId >>
             /\ IF needs_new_view_info(old, height, first_line)
                THEN IF view.document_id \notin DOMAIN documents
                     THEN Fail("InvalidDocumentId")
                     ELSE Await(create_update_notification(
                                   documents[view.document_id], view_id, view))
                ELSE Return

\* The handler with the notification left out after a movement.
handle_key_pressed_silent_move(view_id, input) ==
    IF view_id \notin DOMAIN views
    THEN Fail("InvalidViewId") /\ UNCHANGED appVars
    ELSE IF views[view_id].document_id \notin DOMAIN documents
    THEN Fail("InvalidDocumentId") /\ UNCHANGED appVars
    ELSE LET view == views[view_id]
             d == view.document_id
             operation == interpret_key_input(input)
         IN  CASE operation.kind = "None" ->
                    Return /\ UNCHANGED appVars
               [] operation.kind = "Document" ->
                    /\ UNCHANGED appVars
                    /\ \E written \in BOOLEAN :
                         IF written
                         THEN Await(create_update_notification(
                                       documents[d], view_id, view))
                         ELSE Fail("IoError")
               [] operation.kind = "Edit" ->
                    /\ documents' = [documents EXCEPT ![d].buffer =
                                        apply_edit_op(@, operation.op)]
                    /\ UNCHANGED << views, nextId >>
                    /\ Await(create_update_notification(
                                documents'[d], view_id, view))
               [] operation.kind = "Movement" ->
                    /\ documents' = [documents EXCEPT ![d].buffer =
                                        apply_movement_op(@, view, operation.op)]
                    /\ UNCHANGED << views, nextId >>
                    /\ Return

\* The notification addressed to the newest view of the edited document.
handle_key_pressed_notify_newest(view_id, input) ==
    IF view_id \notin DOMAIN views
    THEN Fail("InvalidViewId") /\ UNCHANGED appVars
    ELSE IF views[view_id].document_id \notin DOMAIN documents
    THEN Fail("InvalidDocumentId") /\ UNCHANGED appVars
    ELSE LET d == views[view_id].document_id
             newest == CHOOSE v \in DOMAIN views :
                          /\ views[v].document_id = d
                          /\ \A w \in DOMAIN views :
                                views[w].document_id = d => w <= v
             view == views[newest]
             operation == interpret_key_input(input)
         IN  CASE operation.kind = "None" ->
                    Return /\ UNCHANGED appVars
               [] operation.kind = "Document" ->
                    /\ UNCHANGED appVars
                    /\ \E written \in BOOLEAN :
                         IF written
                         THEN Await(create_update_notification(
                                       documents[d], newest, view))
                         ELSE Fail("IoError")
               [] operation.kind = "Edit" ->
                    /\ documents' = [documents EXCEPT ![d].buffer =
                                        apply_edit_op(@, operation.op)]
                    /\ UNCHANGED << views, nextId >>
                    /\ Await(create_update_notification(
                                documents'[d], newest, view))
               [] operation.kind = "Movement" ->
                    /\ documents' = [documents EXCEPT ![d].buffer =
                                        apply_movement_op(@, view, operation.op)]
                    /\ UNCHANGED << views, nextId >>
                    /\ Await(create_update_notification(
                                documents'[d], newest, view))

handle_key_pressed(view_id, input) ==
    IF view_id \notin DOMAIN views
    THEN Fail("InvalidViewId") /\ UNCHANGED appVars
    ELSE IF views[view_id].document_id \notin DOMAIN documents
    THEN Fail("InvalidDocumentId") /\ UNCHANGED appVars
    ELSE LET view == views[view_id]
             d == view.document_id
             operation == interpret_key_input(input)
         IN  CASE operation.kind = "None" ->
                    Return /\ UNCHANGED appVars
               [] operation.kind = "Document" ->
                    /\ UNCHANGED appVars
                    /\ \E written \in BOOLEAN :
                         IF written
                         THEN Await(create_update_notification(
                                       documents[d], view_id, view))
                         ELSE Fail("IoError")
               [] operation.kind = "Edit" ->
                    /\ documents' = [documents EXCEPT ![d].buffer =
                                        apply_edit_op(@, operation.op)]
                    /\ UNCHANGED << views, nextId >>
                    /\ Await(create_update_notification(
                                documents'[d], view_id, view))
               [] operation.kind = "Movement" ->
                    /\ documents' = [documents EXCEPT ![d].buffer =
                                        apply_movement_op(@, view, operation.op)]
                    /\ UNCHANGED << views, nextId >>
                    /\ Await(create_update_notification(
                                documents'[d], view_id, view))

\* The handler with the view lookup left out.
handle_mouse_input_unchecked(view, coords) ==
    /\ UNCHANGED appVars
    /\ Return

\* The lookup written with remove instead of get_mut.
handle_mouse_input_remove(view, coords) ==
    IF view \notin DOMAIN views
    THEN Fail("InvalidViewId") /\ UNCHANGED appVars
    ELSE /\ views' = [v \in DOMAIN views \ {view} |-> views[v]]
         /\ UNCHANGED << documents, nextId >>
         /\ Return

handle_mouse_input(view, coords) ==
    /\ UNCHANGED appVars
    /\ IF view \notin DOMAIN views THEN Fail("InvalidViewId") ELSE Return

\* The handler inserting the view before it checks the document.
handle_view_opened_insert_first(request_id, document_id, height, width) ==
    /\ views' = Insert(views, Gen, NewView(document_id, height, width))
    /\ nextId' = nextId + 1
    /\ UNCHANGED documents
    /\ IF document_id \notin DOMAIN documents
       THEN Fail("InvalidDocumentId")
       ELSE Await([type |-> "ViewOpenedResponse",
                   request_id |-> request_id, view_id |-> Gen])

\* The handler with the document check left out.
handle_view_opened_unchecked(request_id, document_id, height, width) ==
    /\ views' = Insert(views, Gen, NewView(document_id, height, width))
    /\ nextId' = nextId + 1
    /\ UNCHANGED documents
    /\ Await([type |-> "ViewOpenedResponse",
              request_id |-> request_id, view_id |-> Gen])

\* The handler keying the new view by the document's id.
handle_view_opened_reuse_id(request_id, document_id, height, width) ==
    IF document_id \notin DOMAIN documents
    THEN Fail("InvalidDocumentId") /\ UNCHANGED appVars
    ELSE /\ views' = Insert(views, document_id,
                            NewView(document_id, height, width))
         /\ nextId' = nextId + 1
         /\ UNCHANGED documents
         /\ Await([type |-> "ViewOpenedResponse",
                   request_id |-> request_id, view_id |-> document_id])

\* The response naming the document instead of the new view.
handle_view_opened_answers_document(request_id, document_id, height, width) ==
    IF document_id \notin DOMAIN documents
    THEN Fail("InvalidDocumentId") /\ UNCHANGED appVars
    ELSE /\ views' = Insert(views, Gen, NewView(document_id, height, width))
         /\ nextId' = nextId + 1
         /\ UNCHANGED documents
         /\ Await([type |-> "ViewOpenedResponse",
                   request_id |-> request_id, view_id |-> document_id])

\* The handler passing width and height to View::new in the wrong order.
handle_view_opened_swapped(request_id, document_id, height, width) ==
    IF document_id \notin DOMAIN documents
    THEN Fail("InvalidDocumentId") /\ UNCHANGED appVars
    ELSE /\ views' = Insert(views, Gen, NewView(document_id, width, height))
         /\ nextId' = nextId + 1
         /\ UNCHANGED documents
         /\ Await([type |-> "ViewOpenedResponse",
                   request_id |-> request_id, view_id |-> Gen])

\* handle_view_opened, then the ViewOpened arm's response.
handle_view_opened(request_id, document_id, height, width) ==
    IF document_id \notin DOMAIN documents
    THEN Fail("InvalidDocumentId") /\ UNCHANGED appVars
    ELSE LET id == Gen
         IN  /\ views' = Insert(views, id, NewView(document_id, height, width))
             /\ nextId' = nextId + 1
             /\ UNCHANGED documents
             /\ Await([type |-> "ViewOpenedResponse",
                       request_id |-> request_id, view_id |-> id])

handle_save_document(document_id) ==
    /\ UNCHANGED appVars
    /\ IF document_id \notin DOMAIN documents
       THEN Fail("InvalidDocumentId")
       ELSE \E written \in BOOLEAN :
              IF written THEN Return ELSE Fail("IoError")

\* handle_rpc_call up to its first suspension in send_rpc (or its return).
handle_rpc_call ==
    /\ pcLoop = "handle"
    /\ CASE cur.type = "KeyPressed" ->
              handle_key_pressed(cur.view_id, cur.input)
         [] cur.type = "MouseInput" ->
              handle_mouse_input(cur.view_id, cur.position)
         [] cur.type = "ViewportChanged" ->
              handle_viewport_changed(cur.view_id, cur.height, cur.width,
                                      cur.first_line, cur.first_col)
         [] cur.type = "ViewOpened" ->
              handle_view_opened(cur.request_id, cur.document_id,
                                 cur.height, cur.width)
         [] cur.type = "SaveDocument" ->
              handle_save_document(cur.document_id)
    /\ UNCHANGED << outbound, envVars, lock, cur, pre, path, bootVars >>

\* The send issued twice.
handler_send_twice ==
    /\ pcLoop = "send"
    /\ outbound' = Append(send_rpc(pending, cur.n),
                          [msg |-> pending, by |-> cur.n,
                           delivered |-> sendOpen])
    /\ res' = IF sendOpen THEN "Ok" ELSE "SendError"
    /\ pcLoop' = "end"
    /\ pending' = NoMsg
    /\ UNCHANGED << appVars, envVars, lock, cur, pre, path, bootVars >>

\* send_rpc(pending).await? inside a handler: the handler resumes with Ok,
\* or fails with the send's error.
handler_send ==
    /\ pcLoop = "send"
    /\ outbound' = send_rpc(pending, cur.n)
    /\ res' = IF sendOpen THEN "Ok" ELSE "SendError"
    /\ pcLoop' = "end"
    /\ pending' = NoMsg
    /\ UNCHANGED << appVars, envVars, lock, cur, pre, path, bootVars >>

\* ------------------------------------------------------------- command loop
\* The loop taking the newest waiting command instead of the oldest.
LoopRecv_newest ==
    /\ pcLoop = "recv"
    /\ inbound # << >>
    /\ cur' = inbound[Len(inbound)]
    /\ inbound' = SubSeq(inbound, 1, Len(inbound) - 1)
    /\ pcLoop' = "lock"
    /\ UNCHANGED << appVars, outbound, sendOpen, issued, inClosed, lock,
                    pending, res, pre, path, bootVars >>

\* recv.next().await yields the oldest waiting command.
LoopRecv ==
    /\ pcLoop = "recv"
    /\ inbound # << >>
    /\ cur' = Head(inbound)
    /\ inbound' = Tail(inbound)
    /\ pcLoop' = "lock"
    /\ UNCHANGED << appVars, outbound, sendOpen, issued, inClosed, lock,
                    pending, res, pre, path, bootVars >>

\* The loop ending as soon as the stream has terminated, waiting commands or not.
LoopEnd_early ==
    /\ pcLoop = "recv"
    /\ inClosed
    /\ pcLoop' = "done"
    /\ UNCHANGED << appVars, outbound, envVars, lock, cur, pending, res, pre,
                    path, bootVars >>

\* recv.next().await yields None: the while-let loop ends.
LoopEnd ==
    /\ pcLoop = "recv"
    /\ inbound = << >>
    /\ inClosed
    /\ pcLoop' = "done"
    /\ UNCHANGED << appVars, outbound, envVars, lock, cur, pending, res, pre,
                    path, bootVars >>

\* The loop entering the handler without waiting for the guard.
LoopLock_nowait ==
    /\ pcLoop = "lock"
    /\ lock' = "loop"
    /\ pcLoop' = "handle"
    /\ pre' = [views |-> views, documents |-> documents,
               sent |-> Len(outbound)]
    /\ UNCHANGED << appVars, outbound, envVars, cur, pending, res, path,
                    bootVars >>

\* core.write().await in the loop.
LoopLock ==
    /\ pcLoop = "lock"
    /\ lock = "free"
    /\ lock' = "loop"
    /\ pcLoop' = "handle"
    /\ pre' = [views |-> views, documents |-> documents,
               sent |-> Len(outbound)]
    /\ UNCHANGED << appVars, outbound, envVars, cur, pending, res, path,
                    bootVars >>

\* The loop ending on the first error instead of logging it.
LoopRelease_break ==
    /\ pcLoop = "end"
    /\ lock' = "free"
    /\ pcLoop' = IF res = "Ok" THEN "recv" ELSE "done"
    /\ cur' = NoCmd
    /\ res' = "None"
    /\ pre' = NoPre
    /\ UNCHANGED << appVars, outbound, envVars, pending, path, bootVars >>

\* handle_rpc_call returned: an error is logged, the guard is dropped and
\* the loop goes back to recv.
LoopRelease ==
    /\ pcLoop = "end"
    /\ lock' = "free"
    /\ pcLoop' = "recv"
    /\ cur' = NoCmd
    /\ res' = "None"
    /\ pre' = NoPre
    /\ UNCHANGED << appVars, outbound, envVars, pending, path, bootVars >>

\* ---------------------------------------------------------------- bootstrap
\* core.write().await in start.
BootLock ==
    /\ pcBoot = "start"
    /\ lock = "free"
    /\ lock' = "boot"
    /\ pcBoot' = "open"
    /\ UNCHANGED << appVars, outbound, envVars, loopVars, path, bootDoc,
                    bootId >>

\* open_ephemeral: an empty document; open_document generates its id.
open_ephemeral ==
    /\ pcBoot = "open"
    /\ path = "none"
    /\ bootDoc' = open_ephemeral_document
    /\ bootId' = Gen
    /\ nextId' = nextId + 1
    /\ pcBoot' = "send"
    /\ UNCHANGED << documents, views, outbound, envVars, lock, loopVars, path >>

\* open_file: the file is read, or start fails with the read's error.
open_file ==
    /\ pcBoot = "open"
    /\ path = "file"
    /\ \E read \in BOOLEAN :
         IF read
         THEN /\ bootDoc' = open_file_document
              /\ bootId' = Gen
              /\ nextId' = nextId + 1
              /\ pcBoot' = "send"
              /\ lock' = lock
         ELSE /\ pcBoot' = "failed"
              /\ lock' = "free"
              /\ UNCHANGED << bootDoc, bootId, nextId >>
    /\ UNCHANGED << documents, views, outbound, envVars, loopVars, path >>

\* The send's error ignored: the document is inserted all the same.
open_document_send_unchecked ==
    /\ pcBoot = "send"
    /\ outbound' = send_rpc([type |-> "OpenDocument",
                              document_id |-> bootId,
                              path |-> bootDoc.path,
                              text |-> content_to_string(bootDoc.buffer)], 0)
    /\ pcBoot' = "insert"
    /\ lock' = lock
    /\ UNCHANGED << appVars, envVars, loopVars, path, bootDoc, bootId >>

\* open_document: send_rpc(OpenDocument).await?
open_document_send ==
    /\ pcBoot = "send"
    /\ outbound' = send_rpc([type |-> "OpenDocument",
                              document_id |-> bootId,
                              path |-> bootDoc.path,
                              text |-> content_to_string(bootDoc.buffer)], 0)
    /\ IF sendOpen
       THEN pcBoot' = "insert" /\ lock' = lock
       ELSE pcBoot' = "failed" /\ lock' = "free"
    /\ UNCHANGED << appVars, envVars, loopVars, path, bootDoc, bootId >>

\* The document inserted under a second generated id.
open_document_insert_regen ==
    /\ pcBoot = "insert"
    /\ documents' = Insert(documents, Gen, bootDoc)
    /\ nextId' = nextId + 1
    /\ lock' = "free"
    /\ pcBoot' = "done"
    /\ UNCHANGED << views, outbound, envVars, loopVars, path, bootDoc,
                    bootId >>

\* open_document: self.documents.insert(id, document); start returns Ok.
open_document_insert ==
    /\ pcBoot = "insert"
    /\ documents' = Insert(documents, bootId, bootDoc)
    /\ lock' = "free"
    /\ pcBoot' = "done"
    /\ UNCHANGED << views, nextId, outbound, envVars, loopVars, path, bootDoc,
                    bootId >>

\* ------------------------------------------------------------ specification
Next ==
    \/ Issue
    \/ Disconnect
    \/ LoopRecv
    \/ LoopEnd
    \/ LoopLock
    \/ handle_rpc_call
    \/ handler_send
    \/ LoopRelease
    \/ BootLock
    \/ open_ephemeral
    \/ open_file
    \/ open_document_send
    \/ open_document_insert

Spec == Init /\ [][Next]_vars

\* ------------------------------------------------------------------ fairness
LoopStep ==
    LoopRecv \/ LoopEnd \/ LoopLock \/ handle_rpc_call \/ handler_send
    \/ LoopRelease

StartStep ==
    BootLock \/ open_ephemeral \/ open_file \/ open_document_send
    \/ open_document_insert

\* The commands issued when progress is checked: of each kind, ones that
\* can succeed and ones that fail (unknown id, failed write, failed send).
ProgressCommands(n) ==
    { c \in Commands(n) :
        \/ c.type = "KeyPressed" /\ c.view_id = 2 /\ c.input \in {"a", "C-s"}
        \/ c.type = "MouseInput" /\ c.view_id = 2
        \/ c.type = "ViewportChanged" /\ c.view_id = 2 /\ c.height = 2
        \/ c.type = "ViewOpened" /\ c.request_id = 1
        \/ c.type = "SaveDocument" /\ c.document_id = 1 }

IssueForProgress ==
    /\ ~inClosed
    /\ issued < MaxCmds
    /\ Len(inbound) < MaxQueue
    /\ \E c \in ProgressCommands(issued + 1) : inbound' = Append(inbound, c)
    /\ issued' = issued + 1
    /\ UNCHANGED << appVars, outbound, sendOpen, inClosed, lock, loopVars,
                    path, bootVars >>

ProgressNext == IssueForProgress \/ Disconnect \/ LoopStep \/ StartStep

\* A frontend that first opens two views and then types and scrolls: the
\* commands under which two views can share one document.
SharedCommands(n) ==
    IF n <= 2
    THEN { c \in Commands(n) : c.type = "ViewOpened" }
    ELSE { c \in Commands(n) : c.type \in {"KeyPressed", "ViewportChanged"} }

IssueShared ==
    /\ ~inClosed
    /\ issued < MaxCmds + 1
    /\ Len(inbound) < MaxQueue
    /\ \E c \in SharedCommands(issued + 1) : inbound' = Append(inbound, c)
    /\ issued' = issued + 1
    /\ UNCHANGED << appVars, outbound, sendOpen, inClosed, lock, loopVars,
                    path, bootVars >>

SharedNext == IssueShared \/ Disconnect \/ LoopStep \/ StartStep

SharedSpec == Init /\ [][SharedNext]_vars

\* The tokio runtime runs both tasks whenever they can run, and the awaited
\* reads, writes and sends complete; the frontend may stay silent.
FairSpec ==
    Init /\ [][ProgressNext]_vars /\ WF_vars(LoopStep) /\ WF_vars(StartStep)

\* ================================================================= claims
\* The messages the command being handled has handed to send_rpc.
CmdEmitted == SelectSeq(outbound, LAMBDA e : e.by = cur.n)

\* The messages sent before the command being handled.
Earlier == SelectSeq(outbound, LAMBDA e : e.by # cur.n)

\* handle_rpc_call has returned for a command of type t.
Handled(t) == pcLoop = "end" /\ cur.type = t

\* The registries are as they were when the command's guard was taken.
RegistriesUntouched == views = pre.views /\ documents = pre.documents

NamesView == cur.type \in {"KeyPressed", "MouseInput", "ViewportChanged"}
NamesDocument == cur.type \in {"ViewOpened", "SaveDocument"}

\* Ids announced by the OpenDocument / ViewOpenedResponse messages sent so far.
ProducedDocuments ==
    { Earlier[i].msg.document_id :
        i \in { j \in 1..Len(Earlier) : Earlier[j].msg.type = "OpenDocument" } }
ProducedViews ==
    { Earlier[i].msg.view_id :
        i \in { j \in 1..Len(Earlier) :
                  Earlier[j].msg.type = "ViewOpenedResponse" } }

KeyOnLiveView ==
    /\ Handled("KeyPressed")
    /\ cur.view_id \in DOMAIN pre.views
    /\ pre.views[cur.view_id].document_id \in DOMAIN pre.documents

\* C2 as stated: every KeyPressed on an existing view that maps to an
\* operation sends exactly one UpdateView; one that maps to none sends
\* nothing and changes nothing.
C2_Original ==
    KeyOnLiveView =>
        IF interpret_key_input(cur.input).kind # "None"
        THEN Len(CmdEmitted) = 1 /\ CmdEmitted[1].msg.type = "UpdateView"
        ELSE CmdEmitted = << >> /\ RegistriesUntouched

\* C2 amended: a KeyPressed on an existing view that maps to an operation
\* sends exactly one UpdateView, unless the operation is a document save
\* whose write fails: then the command fails, sends nothing and changes
\* nothing.  A key that maps to no operation sends nothing and changes nothing.
C2_OneUnlessSaveFails ==
    KeyOnLiveView =>
        LET operation == interpret_key_input(cur.input)
        IN  IF operation.kind # "None"
            THEN \/ /\ res = "IoError"
                    /\ operation.kind = "Document"
                    /\ CmdEmitted = << >>
                    /\ RegistriesUntouched
                 \/ /\ res # "IoError"
                    /\ Len(CmdEmitted) = 1
                    /\ CmdEmitted[1].msg.type = "UpdateView"
            ELSE CmdEmitted = << >> /\ RegistriesUntouched /\ res = "Ok"

\* An edit was applied and notified once.
C2_Witness ==
    /\ KeyOnLiveView
    /\ interpret_key_input(cur.input).kind = "Edit"
    /\ documents # pre.documents
    /\ Len(CmdEmitted) = 1
    /\ res = "Ok"

\* ---------------------------------------------------------------------- C3
\* C3: a command naming a view id no ViewOpenedResponse has announced fails
\* with InvalidViewId, one naming a document id no OpenDocument has announced
\* fails with InvalidDocumentId; either leaves the registries and their
\* contents unchanged and sends nothing.
C3_UnknownIdRejected ==
    /\ (pcLoop = "end" /\ NamesView /\ cur.view_id \notin ProducedViews) =>
          res = "InvalidViewId" /\ RegistriesUntouched /\ CmdEmitted = << >>
    /\ (pcLoop = "end" /\ NamesDocument
          /\ cur.document_id \notin ProducedDocuments) =>
          res = "InvalidDocumentId" /\ RegistriesUntouched
          /\ CmdEmitted = << >>

\* A mouse click on an unannounced view id was rejected while a view existed.
C3_Witness ==
    /\ Handled("MouseInput")
    /\ cur.view_id \notin ProducedViews
    /\ res = "InvalidViewId"
    /\ DOMAIN views # {}

\* ---------------------------------------------------------------------- C4
\* C4 as stated: whenever a command fails, the registries, every view's
\* geometry and every buffer are as before the command.
C4_Original == (pcLoop = "end" /\ res # "Ok") => RegistriesUntouched

\* C4 amended: when a command fails with InvalidViewId, InvalidDocumentId or
\* a save's I/O error, the registries, every view's geometry and every buffer
\* are as before the command; the only other failure is that of the outbound
\* send, which keeps what the handler did before sending.
C4_FailedLookupOrSaveUntouched ==
    pcLoop = "end" =>
        /\ res \in {"Ok", "InvalidViewId", "InvalidDocumentId", "IoError",
                    "SendError"}
        /\ res \in {"InvalidViewId", "InvalidDocumentId", "IoError"} =>
              RegistriesUntouched /\ CmdEmitted = << >>
        /\ res = "SendError" =>
              Len(CmdEmitted) = 1 /\ ~CmdEmitted[1].delivered

\* A save chord failed in the write, after both lookups succeeded.
C4_Witness ==
    /\ KeyOnLiveView
    /\ res = "IoError"
    /\ RegistriesUntouched

\* ---------------------------------------------------------------------- C5
\* C5: in every reachable state every view's document_id is a key of the
\* document registry.
C5_ViewsReferenceDocuments ==
    \A v \in DOMAIN views : views[v].document_id \in DOMAIN documents

\* A command has failed while a view exists.
C5_Witness ==
    /\ DOMAIN views # {}
    /\ pcLoop = "end"
    /\ res \notin {"Ok", "None"}

\* ---------------------------------------------------------------------- C6
\* Every id handed out before the command being handled.
AllocatedEarlier ==
    DOMAIN pre.views \cup DOMAIN pre.documents \cup ProducedViews
    \cup ProducedDocuments

\* C6: a ViewOpened for an existing document adds one view under an id that
\* was never handed out before, and no id is a key of both registries.
C6_FreshViewId ==
    /\ DOMAIN views \cap DOMAIN documents = {}
    /\ (Handled("ViewOpened") /\ cur.document_id \in DOMAIN pre.documents) =>
          LET new == DOMAIN views \ DOMAIN pre.views
          IN  /\ Cardinality(new) = 1
              /\ new \cap AllocatedEarlier = {}
              /\ Cardinality(DOMAIN views) = Cardinality(DOMAIN pre.views) + 1

\* A second view was opened on the document.
C6_Witness ==
    /\ Handled("ViewOpened")
    /\ cur.document_id \in DOMAIN pre.documents
    /\ DOMAIN pre.views # {}
    /\ Cardinality(DOMAIN views) = 2

\* ---------------------------------------------------------------------- C7
LoopInCommand == pcLoop \in {"handle", "send", "end"}
BootInOpen == pcBoot \in {"open", "send", "insert"}

\* C7: a command holds the write guard from before its handler starts until
\* its handler has returned, sends included, and so does the bootstrap's
\* document open: neither runs while the other is under way, a handler never
\* sees a document that was announced but not yet inserted, and when a
\* command starts every earlier command's message is already sent.
C7_Serialized ==
    /\ LoopInCommand => (lock = "loop" /\ ~BootInOpen)
    /\ BootInOpen => (lock = "boot" /\ ~LoopInCommand)
    /\ LoopInCommand =>
          \A i \in 1..Len(outbound) :
             (outbound[i].msg.type = "OpenDocument" /\ outbound[i].delivered)
                => outbound[i].msg.document_id \in DOMAIN documents
    /\ pcLoop \in {"recv", "lock", "handle", "done"} => pending = NoMsg
    /\ pcLoop \in {"lock", "handle"} =>
          \A i \in 1..Len(outbound) : outbound[i].by < cur.n

\* A dequeued command waits for the guard while the bootstrap is between
\* announcing its document and inserting it.
C7_Witness ==
    /\ pcLoop = "lock"
    /\ pcBoot = "insert"
    /\ lock = "boot"

\* ---------------------------------------------------------------------- C8
\* C8: the messages of commands appear in the outbound stream in the order
\* the commands were issued.
C8_OutboundInCommandOrder ==
    \A i, j \in 1..Len(outbound) :
        (i < j /\ outbound[i].by > 0 /\ outbound[j].by > 0)
            => outbound[i].by < outbound[j].by

\* Two commands have each sent a message.
C8_Witness ==
    \E i, j \in 1..Len(outbound) :
        /\ i < j
        /\ outbound[i].by = 1
        /\ outbound[j].by = 2
        /\ outbound[j].delivered

\* ---------------------------------------------------------------------- C9
\* C9: every command that reaches the inbound channel is eventually handled,
\* whether or not the commands before it failed.
C9_EveryCommandHandled ==
    \A n \in 1..MaxCmds :
        [] ((\E i \in 1..Len(inbound) : inbound[i].n = n)
              => <> (pcLoop = "end" /\ cur.n = n))

\* The second command has been handled after the first one failed in its send.
C9_Witness ==
    /\ pcLoop = "end"
    /\ cur.n = 2
    /\ \E i \in 1..Len(outbound) :
          outbound[i].by = 1 /\ ~outbound[i].delivered

\* --------------------------------------------------------------------- C10
\* C10: every step that sends adds one message to the stream; a message sent
\* for a command is sent while that command is the one being handled, and is
\* the only one that command sends.
C10_AtMostOnePerCommand ==
    [][outbound' # outbound =>
         /\ Len(outbound') = Len(outbound) + 1
         /\ SubSeq(outbound', 1, Len(outbound)) = outbound
         /\ LET e == outbound'[Len(outbound')]
            IN  \/ e.by = 0 /\ pcBoot = "send"
                \/ /\ pcLoop = "send"
                   /\ e.by = cur.n
                   /\ cur' = cur
                   /\ CmdEmitted = << >>]_vars

\* A command has sent its message while the next command is still waiting.
C10_Witness ==
    /\ pcLoop = "end"
    /\ Len(CmdEmitted) = 1
    /\ inbound # << >>

\* --------------------------------------------------------------------- C11
\* C11: a ViewOpened naming an existing document sends exactly one
\* ViewOpenedResponse, carrying the command's request_id and the id of the
\* view that command inserted; one naming a missing document sends no
\* response and inserts no view.
C11_ResponseCorrelated ==
    Handled("ViewOpened") =>
        IF cur.document_id \in DOMAIN pre.documents
        THEN /\ Len(CmdEmitted) = 1
             /\ CmdEmitted[1].msg.type = "ViewOpenedResponse"
             /\ CmdEmitted[1].msg.request_id = cur.request_id
             /\ DOMAIN views \ DOMAIN pre.views = {CmdEmitted[1].msg.view_id}
        ELSE /\ CmdEmitted = << >>
             /\ views = pre.views
             /\ res = "InvalidDocumentId"

\* A second view was opened and answered under the second request id.
C11_Witness ==
    /\ Handled("ViewOpened")
    /\ cur.request_id = 2
    /\ DOMAIN pre.views # {}
    /\ Len(CmdEmitted) = 1
    /\ CmdEmitted[1].delivered
    /\ CmdEmitted[1].msg.view_id \notin DOMAIN pre.views

\* --------------------------------------------------------------------- C12
\* The messages start has handed to send_rpc.
StartEmitted == SelectSeq(outbound, LAMBDA e : e.by = 0)

\* C12: opening an ephemeral document sends exactly one OpenDocument, with
\* the new document's id, no path and empty text, and makes one document;
\* the step that completes the open leaves the registry mapping exactly the
\* announced id to a document with no path and an empty buffer.
C12_EphemeralOpen ==
    [][path = "none" =>
         /\ Len(StartEmitted') <= 1
         /\ Cardinality(DOMAIN documents') <= 1
         /\ (pcBoot' \in {"insert", "done"}) =>
               /\ Len(StartEmitted') = 1
               /\ StartEmitted'[1].msg =
                     [type |-> "OpenDocument", document_id |-> bootId',
                      path |-> "none", text |-> << >>]
         /\ (pcBoot = "insert" /\ pcBoot' = "done") =>
               /\ StartEmitted[1].delivered
               /\ DOMAIN documents' = {StartEmitted[1].msg.document_id}
               /\ documents'[StartEmitted[1].msg.document_id] =
                     [path |-> "none",
                      buffer |-> [text |-> << >>, caret |-> 0]]]_vars

\* The ephemeral document is registered under the id that was announced.
C12_Witness ==
    /\ path = "none"
    /\ pcBoot = "done"
    /\ Len(StartEmitted) = 1
    /\ StartEmitted[1].delivered
    /\ DOMAIN documents = {StartEmitted[1].msg.document_id}
    /\ documents[bootId].path = "none"

\* --------------------------------------------------------------------- C13
ViewportOnLiveView ==
    Handled("ViewportChanged") /\ cur.view_id \in DOMAIN pre.views

\* C13: after a ViewportChanged on an existing view the view holds the
\* command's height, width, first_line and first_col (and its document_id as
\* before) whether or not an UpdateView was sent, no other view or document
\* changed, and whether one was sent follows from the height and first_line
\* the view had before the command.
C13_GeometryAlwaysWritten ==
    ViewportOnLiveView =>
        LET old == pre.views[cur.view_id]
        IN  /\ views = [pre.views EXCEPT ![cur.view_id] =
                          [document_id |-> old.document_id,
                           height |-> cur.height, width |-> cur.width,
                           first_line |-> cur.first_line,
                           first_col |-> cur.first_col]]
            /\ documents = pre.documents
            /\ (CmdEmitted # << >>) <=>
                  (cur.height > old.height \/ old.first_line # cur.first_line)

\* A narrower, shorter viewport was written without a notification.
C13_Witness ==
    /\ ViewportOnLiveView
    /\ CmdEmitted = << >>
    /\ cur.width # pre.views[cur.view_id].width
    /\ cur.height # pre.views[cur.view_id].height
    /\ views[cur.view_id].width = cur.width
    /\ views[cur.view_id].height = cur.height

\* --------------------------------------------------------------------- C14
\* The UpdateView messages sent for view v before the command being handled.
UpdatesFor(v) ==
    { Earlier[i].msg :
        i \in { j \in 1..Len(Earlier) :
                  /\ Earlier[j].msg.type = "UpdateView"
                  /\ Earlier[j].msg.view_id = v } }

\* C14: whenever a ViewportChanged is handled without sending an UpdateView,
\* the rows [first_line, first_line + height) the view now shows lie within
\* the rows of some UpdateView sent earlier for that view.
C14_SuppressedImpliesCovered ==
    (ViewportOnLiveView /\ res = "Ok" /\ CmdEmitted = << >>) =>
        \E u \in UpdatesFor(cur.view_id) :
            /\ u.first_line <= views[cur.view_id].first_line
            /\ views[cur.view_id].first_line + views[cur.view_id].height
                  <= u.first_line + u.height

\* --------------------------------------------------------------------- C15
\* C15: a ViewOpened naming an existing document adds exactly one view, bound
\* to that document, with the command's height and width and with
\* first_line = 0 and first_col = 0; every other view and every document is
\* as before.
C15_OneViewAdded ==
    (Handled("ViewOpened") /\ cur.document_id \in DOMAIN pre.documents) =>
        /\ \E id \in DOMAIN views \ DOMAIN pre.views :
              /\ DOMAIN views = DOMAIN pre.views \cup {id}
              /\ views[id] = [document_id |-> cur.document_id,
                              height |-> cur.height, width |-> cur.width,
                              first_line |-> 0, first_col |-> 0]
        /\ \A v \in DOMAIN pre.views : views[v] = pre.views[v]
        /\ documents = pre.documents

\* A view was opened beside an existing one and answered.
C15_Witness ==
    /\ Handled("ViewOpened")
    /\ res = "Ok"
    /\ DOMAIN pre.views # {}
    /\ Cardinality(DOMAIN views) = Cardinality(DOMAIN pre.views) + 1
    /\ \E id \in DOMAIN views \ DOMAIN pre.views :
          views[id].height = cur.height /\ views[id].width # cur.height

\* --------------------------------------------------------------------- C16
\* C16: no step removes a document id or a view id from its registry, and no
\* step changes the document_id of an existing view.
C16_InsertOnly ==
    [][/\ DOMAIN documents \subseteq DOMAIN documents'
       /\ DOMAIN views \subseteq DOMAIN views'
       /\ \A v \in DOMAIN views :
             views'[v].document_id = views[v].document_id]_vars

\* A command on an existing view has been handled and the view is still
\* there, bound to the same document.
C16_Witness ==
    /\ pcLoop = "end"
    /\ NamesView
    /\ cur.view_id \in DOMAIN pre.views
    /\ cur.view_id \in DOMAIN views
    /\ views[cur.view_id].document_id = pre.views[cur.view_id].document_id
    /\ DOMAIN documents # {}

\* --------------------------------------------------------------------- C17
\* C17: an UpdateView sent while handling a ViewportChanged carries the
\* command's first_line and height, the view's geometry after the command.
C17_NotificationAfterWrite ==
    Handled("ViewportChanged") =>
        \A i \in 1..Len(CmdEmitted) :
            /\ CmdEmitted[i].msg.type = "UpdateView"
            /\ CmdEmitted[i].msg.first_line = cur.first_line
            /\ CmdEmitted[i].msg.height = cur.height
            /\ CmdEmitted[i].msg.first_line = views[cur.view_id].first_line
            /\ CmdEmitted[i].msg.height = views[cur.view_id].height

\* A viewport that scrolled and shrank was notified with its new geometry.
C17_Witness ==
    /\ ViewportOnLiveView
    /\ Len(CmdEmitted) = 1
    /\ cur.first_line # pre.views[cur.view_id].first_line
    /\ cur.height # pre.views[cur.view_id].height
    /\ CmdEmitted[1].msg.first_line = cur.first_line
    /\ CmdEmitted[1].msg.height = cur.height

\* --------------------------------------------------------------------- C18
\* C18: once the inbound stream has terminated the loop task finishes; every
\* command that reached the stream is handled first; the finished task holds
\* no command, no message and no guard, and does nothing further.
C18_GracefulEnd ==
    /\ [] (inClosed => <> (pcLoop = "done"))
    /\ \A n \in 1..MaxCmds :
          [] ((\E i \in 1..Len(inbound) : inbound[i].n = n)
                => <> (pcLoop = "end" /\ cur.n = n /\ res # "None"))
    /\ [] (pcLoop = "done" =>
             /\ inClosed
             /\ inbound = << >>
             /\ cur = NoCmd
             /\ pending = NoMsg
             /\ lock # "loop")
    /\ [][pcLoop = "done" =>
            /\ pcLoop' = "done"
            /\ UNCHANGED << views, inbound, cur, pending, res, pre >>
            /\ \A i \in 1..Len(outbound') : i > Len(outbound) =>
                  outbound'[i].by = 0]_vars

\* The loop has finished after handling a command that was still waiting
\* when the client disconnected.
C18_Witness ==
    /\ pcLoop = "done"
    /\ \E i \in 1..Len(outbound) :
          outbound[i].by >= 1 /\ ~outbound[i].delivered

\* --------------------------------------------------------------------- C19
\* Positions in the stream of the delivered OpenDocument messages for d.
Announcements(d) ==
    { i \in 1..Len(outbound) :
        /\ outbound[i].msg.type = "OpenDocument"
        /\ outbound[i].msg.document_id = d
        /\ outbound[i].delivered }

\* C19: every document id in the registry was announced by a delivered
\* OpenDocument message, and every ViewOpenedResponse in the stream comes
\* after the OpenDocument of the document its view is bound to.
C19_AnnouncedBeforeUse ==
    /\ \A d \in DOMAIN documents : Announcements(d) # {}
    /\ \A j \in 1..Len(outbound) :
          outbound[j].msg.type = "ViewOpenedResponse" =>
             /\ outbound[j].msg.view_id \in DOMAIN views
             /\ \E i \in Announcements(
                           views[outbound[j].msg.view_id].document_id) : i < j

\* A view was opened by a command that was already waiting when start
\* announced and inserted its document.
C19_Witness ==
    /\ Len(outbound) = 2
    /\ outbound[1].msg.type = "OpenDocument"
    /\ outbound[2].msg.type = "ViewOpenedResponse"
    /\ outbound[2].by = 1
    /\ pcLoop = "end"
    /\ issued = 2

====
